---- MODULE Spec2Model ----
(***************************************************************************)
(* Model of the build update route (PUT /builds/{id}) of screwdriver:      *)
(* the handler of src/unnamed/part_000, its status transition rules and    *)
(* the trigger cascade it starts when a build reaches SUCCESS.             *)
(***************************************************************************)
EXTENDS Integers, Sequences, FiniteSets, TLC

\* ------------------------------------------------------------------ bounds
\* number of requests that may arrive (the clock stops there)
MaxClock == 3

\* ------------------------------------------------------------- boom codes
BadRequest == 400
Unauthorized == 401
Forbidden == 403
NotFound == 404
Internal == 500
Ok == 200

\* ------------------------------------------------------------ data domains
\* builds that exist in the repository; requests name build 1 or the
\* id 3 that no build has
BuildIds == {1, 2}
RequestIds == {1, 3}
Slots == {1, 2}

\* build 1 is job "main", build 2 is job "deploy"; both of pipeline 5, event 1
JobOfBuild == [b \in BuildIds |-> IF b = 1 THEN "main" ELSE "deploy"]
PipelineOfBuild == [b \in BuildIds |-> 5]
EventOfBuild == [b \in BuildIds |-> 1]
EventIds == {1}

Humans == {"alice", "carol", "root"}
\* user.getPermissions(pipeline.scmUri).push
HasPush(u, pipelineId) == \/ (u = "alice" /\ pipelineId = 5)
                          \/ (u = "carol" /\ pipelineId = 7)
\* banners.screwdriverAdminDetails(username, scmContext).isAdmin
IsAdmin(u) == u = "root"

NoMessage == <<>>
EmptyMap == <<>>
NoTime == 0

\* object spread / Object.assign: the keys of b override those of a
Merge(a, b) == [k \in (DOMAIN a) \cup (DOMAIN b) |->
                  IF k \in DOMAIN b THEN b[k] ELSE a[k]]

NewBuild(b) == [id |-> b, jobId |-> JobOfBuild[b], eventId |-> EventOfBuild[b],
                status |-> "QUEUED", statusMessage |-> NoMessage,
                meta |-> EmptyMap, stats |-> EmptyMap,
                startTime |-> NoTime, endTime |-> NoTime]
\* what buildFactory.get resolves to for an unknown id
NoBuild == [id |-> 0, jobId |-> "", eventId |-> 0,
            status |-> "", statusMessage |-> NoMessage,
            meta |-> EmptyMap, stats |-> EmptyMap,
            startTime |-> NoTime, endTime |-> NoTime]
NoEvent == [id |-> 0, meta |-> EmptyMap]

\* -------------------------------------------------------------- requests
\* request.payload: every field is optional
StatusValues == {"QUEUED", "RUNNING", "BLOCKED", "UNSTABLE",
                 "SUCCESS", "FAILURE", "ABORTED"}
\* what comes with the status: statusMessage, meta and stats
Extras == {EmptyMap,
           [statusMessage |-> <<"m1">>, meta |-> [a |-> 1],
            stats |-> [x |-> 1]],
           [statusMessage |-> <<"m2">>, meta |-> [a |-> 2, b |-> 2],
            stats |-> [x |-> 2, y |-> 2]]}
Payloads == {Merge(s, e) :
               s \in {EmptyMap} \cup {[status |-> v] : v \in StatusValues},
               e \in Extras}

\* request.auth.credentials: a build token carries the build id as username
BuildCredentials ==
    {[username |-> ToString(b), scope |-> {"build"}] : b \in RequestIds}
    \cup {[username |-> ToString(1), scope |-> {"temporal"}]}
HumanCredentials == {[username |-> u, scope |-> {"user"}] : u \in Humans}
Credentials == BuildCredentials \cup HumanCredentials

\* the payloads tried against the id that no build has
FewPayloads == {p \in Payloads :
                  /\ DOMAIN p \in {{}, {"status"},
                                   {"status", "statusMessage", "meta", "stats"}}
                  /\ "status" \in DOMAIN p =>
                       p.status \in {"ABORTED", "SUCCESS"}}
Requests ==
    [id : BuildIds \cap RequestIds, credentials : Credentials, payload : Payloads]
    \cup [id : RequestIds \ BuildIds, credentials : Credentials,
          payload : FewPayloads]
NoRequest == [id |-> 0, credentials |-> [username |-> "", scope |-> {}],
              payload |-> EmptyMap]

\* const desiredStatus = request.payload.status ("" stands for undefined)
DesiredStatus(req) == IF "status" \in DOMAIN req.payload
                      THEN req.payload.status ELSE ""
\* const { statusMessage, stats } = request.payload
StatusMessage(req) == IF "statusMessage" \in DOMAIN req.payload
                      THEN req.payload.statusMessage ELSE NoMessage
HasStats(req) == "stats" \in DOMAIN req.payload
\* request.payload.meta || {}
PayloadMeta(req) == IF "meta" \in DOMAIN req.payload
                    THEN req.payload.meta ELSE EmptyMap
\* scope.includes('build') || scope.includes('temporal')
IsBuild(req) == \/ "build" \in req.credentials.scope
                \/ "temporal" \in req.credentials.scope

\* ------------------------------------------------- the handler, step by step
\* (slip: FAILURE builds stay open to updates)
UpdatableLax == {"RUNNING", "QUEUED", "BLOCKED", "UNSTABLE", "FAILURE"}
Updatable == {"RUNNING", "QUEUED", "BLOCKED", "UNSTABLE"}

\* if (isBuild && username !== id): checked before the build is fetched
CredentialMismatch(req) ==
    IsBuild(req) /\ req.credentials.username # ToString(req.id)

\* (slip: the administrator check is left out)
AuthorizePushOnly(req, build) ==
    IF build = NoBuild THEN NotFound
    ELSE IF build.status \notin {"RUNNING", "QUEUED", "BLOCKED", "UNSTABLE"}
         THEN Forbidden
    ELSE IF ~IsBuild(req)
         THEN IF DesiredStatus(req) # "ABORTED" THEN BadRequest
              ELSE IF ~HasPush(req.credentials.username,
                               PipelineOfBuild[build.id])
                   THEN Unauthorized
                   ELSE 0
         ELSE 0
\* (slip: the check for a missing build is left out)
AuthorizeNoLookupCheck(req, build) ==
    IF build.status \notin {"RUNNING", "QUEUED", "BLOCKED", "UNSTABLE"}
    THEN Forbidden
    ELSE IF ~IsBuild(req)
         THEN IF DesiredStatus(req) # "ABORTED" THEN BadRequest
              ELSE IF /\ ~HasPush(req.credentials.username,
                                  PipelineOfBuild[build.id])
                      /\ ~IsAdmin(req.credentials.username)
                   THEN Unauthorized
                   ELSE 0
         ELSE 0

\* the first .then(): 0 when the request may proceed, else the boom code
Authorize(req, build) ==
    IF build = NoBuild THEN NotFound
    ELSE IF build.status \notin Updatable THEN Forbidden
    ELSE IF ~IsBuild(req)
         THEN IF DesiredStatus(req) # "ABORTED" THEN BadRequest
              ELSE IF /\ ~HasPush(req.credentials.username,
                                  PipelineOfBuild[build.id])
                      /\ ~IsAdmin(req.credentials.username)
                   THEN Unauthorized
                   ELSE 0
         ELSE 0

\* (slip: the supplied stats replace the stored ones)
MergeStatsReplace(build, req) ==
    IF HasStats(req)
    THEN [build EXCEPT !.stats = req.payload.stats]
    ELSE build

\* if (stats) build.stats = Object.assign(build.stats, stats)
MergeStats(build, req) ==
    IF HasStats(req)
    THEN [build EXCEPT !.stats = Merge(build.stats, req.payload.stats)]
    ELSE build

\* the short circuit taken when no status is requested
ShortCircuit(build, req) ==
    IF StatusMessage(req) # NoMessage
    THEN [build EXCEPT !.statusMessage = StatusMessage(req)]
    ELSE build

\* (slip: BLOCKED falls through to the terminal case)
SwitchBuildStampsBlocked(build, req, t) ==
    IF DesiredStatus(req) \in {"SUCCESS", "FAILURE", "ABORTED", "BLOCKED"}
    THEN [build EXCEPT !.meta = PayloadMeta(req), !.endTime = t]
    ELSE IF DesiredStatus(req) = "RUNNING"
         THEN [build EXCEPT !.startTime = t]
         ELSE build

\* switch (desiredStatus): meta and timestamps
SwitchBuild(build, req, t) ==
    IF DesiredStatus(req) \in {"SUCCESS", "FAILURE", "ABORTED"}
    THEN [build EXCEPT !.meta = PayloadMeta(req), !.endTime = t]
    ELSE IF DesiredStatus(req) = "RUNNING"
         THEN [build EXCEPT !.startTime = t]
         ELSE build
SwitchEvent(event, req) ==
    IF DesiredStatus(req) \in {"SUCCESS", "FAILURE", "ABORTED"}
    THEN [event EXCEPT !.meta = Merge(event.meta, PayloadMeta(req))]
    ELSE event
Switchable == {"SUCCESS", "FAILURE", "ABORTED", "RUNNING", "UNSTABLE", "BLOCKED"}

\* (slip: the status is overwritten whatever the current status)
SetStatusNoClamp(build, req) ==
    [build EXCEPT
       !.status = DesiredStatus(req),
       !.statusMessage =
           IF DesiredStatus(req) = "ABORTED"
           THEN <<"Aborted by ", req.credentials.username>>
           ELSE StatusMessage(req)]

\* (slip: only the status is inside the if, the message is always written)
SetStatusMessageOutside(build, req) ==
    [build EXCEPT
       !.status = IF build.status # "UNSTABLE" THEN DesiredStatus(req)
                  ELSE build.status,
       !.statusMessage =
           IF DesiredStatus(req) = "ABORTED"
           THEN <<"Aborted by ", req.credentials.username>>
           ELSE StatusMessage(req)]

\* if (build.status !== 'UNSTABLE') { status, statusMessage }
SetStatus(build, req) ==
    IF build.status # "UNSTABLE"
    THEN [build EXCEPT
            !.status = DesiredStatus(req),
            !.statusMessage =
                IF DesiredStatus(req) = "ABORTED"
                THEN <<"Aborted by ", req.credentials.username>>
                ELSE StatusMessage(req)]
    ELSE build

\* the second .then() up to the two update() calls: the objects to persist,
\* or the boom code thrown before anything is persisted
Transition(build, event, req, t) ==
    LET merged == MergeStats(build, req) IN
    IF DesiredStatus(req) = ""
    THEN [err |-> 0, build |-> ShortCircuit(merged, req), event |-> event]
    ELSE IF DesiredStatus(req) \notin Switchable
         THEN [err |-> BadRequest, build |-> merged, event |-> event]
         ELSE [err |-> 0,
               build |-> SetStatus(SwitchBuild(merged, req, t), req),
               event |-> SwitchEvent(event, req)]

\* --------------------------------------------------------- trigger tokens
\* `${pipeline.id}`: the decimal digits of a positive integer
RECURSIVE Digits(_)
Digits(n) == IF n < 10 THEN <<n>> ELSE Append(Digits(n \div 10), n % 10)
\* parseInt(pipelineId, 10)
RECURSIVE ParseInt(_)
ParseInt(ds) == IF Len(ds) = 0 THEN 0
                ELSE 10 * ParseInt(SubSeq(ds, 1, Len(ds) - 1)) + ds[Len(ds)]
\* "~sd@<pipelineId>:<jobName>"
Token(pidDigits, jobName) == [pipelineId |-> pidDigits, jobName |-> jobName]
\* const src = `~sd@${pipeline.id}:${job.name}`
SrcToken(build) == Token(Digits(PipelineOfBuild[build.id]), build.jobId)
\* record.dest.match(EXTERNAL_TRIGGER)[1]
DestPipelineId(record) == record.dest.pipelineId

\* (slip: an array instead of a Set)
UniqueNot(seq) == seq

\* new Set() filled in list order, then Array.from(): first occurrences
RECURSIVE Unique(_)
Unique(seq) ==
    IF Len(seq) = 0 THEN <<>>
    ELSE LET init == Unique(SubSeq(seq, 1, Len(seq) - 1))
             x == seq[Len(seq)]
         IN IF \E i \in 1..Len(init) : init[i] = x THEN init
            ELSE Append(init, x)
\* triggerFactory.list({ params: { src } })
ListTriggers(registry, src) == SelectSeq(registry, LAMBDA rec : rec.src = src)
\* the pipeline ids the fan-out maps over
TriggeredPipelines(records) ==
    Unique([i \in 1..Len(records) |-> DestPipelineId(records[i])])

\* ------------------------------------------------------- trigger registry
\* TriggerRecords {src, dest}; the registry is not written by this route
T_main_9a == [src |-> Token(<<5>>, "main"), dest |-> Token(<<9>>, "a")]
T_main_9b == [src |-> Token(<<5>>, "main"), dest |-> Token(<<9>>, "b")]
T_main_12 == [src |-> Token(<<5>>, "main"), dest |-> Token(<<1, 2>>, "a")]
T_other_9 == [src |-> Token(<<7>>, "main"), dest |-> Token(<<9>>, "a")]
T_other_5 == [src |-> Token(<<5>>, "main2"), dest |-> Token(<<5>>, "a")]
Registry == <<T_other_9, T_main_9a, T_main_12, T_main_9a, T_other_5,
              T_main_9b>>

\* ------------------------------------------------------------------ state
VARIABLES
    builds,     \* the build repository: id -> persisted build
    events,     \* the event repository: id -> persisted event
    triggers,   \* the trigger registry
    created,    \* the events created by triggerEvent, in creation order
    now,        \* the clock: the number of requests received
    slot,       \* the requests in flight: position and request-scoped data
    repeated    \* the request in a slot repeats the one answered 200 before it

vars == <<builds, events, triggers, created, now, slot, repeated>>

IdleSlot == [pc |-> "idle", req |-> NoRequest,
             build |-> NoBuild, event |-> NoEvent,
             preBuild |-> NoBuild, preEvent |-> NoEvent,
             reply |-> 0, emitted |-> <<>>, cascade |-> FALSE,
             listed |-> FALSE, ids |-> <<>>, pending |-> {},
             settled |-> <<>>, fault |-> {}, mark |-> 0]

\* ------------------------------------------------- webhook router: state
VARIABLES
    pipelines,  \* the pipeline repository: id -> pipeline
    jobs,       \* the job repository: id -> job
    prBuilds,   \* the builds of those jobs: id -> build
    options,    \* the options the webhooks plugin was registered with
    hook,       \* the notification being handled and its request-scoped data
    delivered   \* how often the notification has been delivered

hookVars == <<pipelines, jobs, prBuilds, options, hook, delivered>>

\* what scm.parseHook resolves to for a payload it does not recognise
NoHook == [type |-> "", action |-> "", branch |-> "", prNum |-> 0,
           prSource |-> "", username |-> "", lastCommitMessage |-> <<>>,
           sha |-> ""]

\* pc: where the handler is; replies: the status codes sent so far;
\* last: the status codes sent for the previous delivery;
\* before: the jobs and builds as they were when the notification arrived;
\* resolved: the pipelines of the first fan-out; pipeline: the pipeline at
\* the hook's branch (0: none); synced: calls of pipeline.sync();
\* prJobs: the jobs of the pull request; stopping: builds whose update is
\* pending; aborted: builds this request has stopped; broken: jobs whose
\* chain has rejected; archiving: jobs still on their way to the archive;
\* todo: pipelines the event loop has yet to visit; made: the events created;
\* rejected: an eventFactory.create of this request has rejected;
\* fault: a collaborator call of this request has failed;
\* failed: the request has been answered with an error
IdleHook == [pc |-> "idle", parsed |-> NoHook, replies |-> <<>>,
             last |-> <<>>,
             before |-> <<>>, resolved |-> <<>>, pipeline |-> 0,
             synced |-> 0, prJobs |-> {}, stopping |-> {}, aborted |-> {},
             broken |-> {}, archiving |-> {}, todo |-> <<>>, made |-> <<>>,
             rejected |-> FALSE, fault |-> FALSE, failed |-> FALSE]

\* the router is not part of the build update route
HookQuiet ==
    /\ pipelines = <<>>
    /\ jobs = <<>>
    /\ prBuilds = <<>>
    /\ options = [username |-> "sd-buildbot"]
    /\ hook = IdleHook
    /\ delivered = 0

BuildInit ==
    /\ builds = [b \in BuildIds |-> NewBuild(b)]
    /\ events = [e \in EventIds |-> [id |-> e, meta |-> EmptyMap]]
    /\ triggers = Registry
    /\ created = <<>>
    /\ now = 0
    /\ slot = [r \in Slots |-> IdleSlot]
    /\ repeated = [r \in Slots |-> FALSE]

Init == BuildInit /\ HookQuiet

\* buildFactory.get(id)
GetBuild(id) == IF id \in DOMAIN builds THEN builds[id] ELSE NoBuild
\* eventFactory.get(build.eventId)
GetEvent(id) == IF id \in DOMAIN events THEN events[id] ELSE NoEvent

\* reply(boom...) on one of the paths before anything is persisted
Reject(r, req, build, code) ==
    slot' = [slot EXCEPT ![r] = [IdleSlot EXCEPT
                !.pc = "done", !.req = req, !.reply = code,
                !.mark = Len(created), !.preBuild = build,
                !.preEvent = GetEvent(build.eventId)]]

\* the handler up to eventFactory.get: credential check, buildFactory.get,
\* the checks of the first .then()
Handle(r, req) ==
    /\ now < MaxClock
    /\ now' = now + 1
    /\ LET build == GetBuild(req.id) IN
       IF CredentialMismatch(req)
       THEN Reject(r, req, build, Forbidden)
       ELSE IF Authorize(req, build) # 0
            THEN Reject(r, req, build, Authorize(req, build))
            ELSE slot' = [slot EXCEPT ![r] = [IdleSlot EXCEPT
                    !.pc = "loaded", !.req = req, !.mark = Len(created),
                    !.build = build, !.event = GetEvent(build.eventId),
                    !.preBuild = build,
                    !.preEvent = GetEvent(build.eventId)]]
    /\ UNCHANGED <<builds, events, triggers, created>>

\* a request arrives
Begin(r, req) ==
    /\ slot[r].pc = "idle"
    /\ repeated' = [repeated EXCEPT ![r] = FALSE]
    /\ Handle(r, req)

\* the client sends the request it was just answered 200 for once more
Retry(r) ==
    /\ slot[r].pc = "done"
    /\ slot[r].reply = Ok
    /\ repeated' = [repeated EXCEPT ![r] = TRUE]
    /\ Handle(r, slot[r].req)

\* the answered request is over
Finish(r) ==
    /\ slot[r].pc = "done"
    /\ slot' = [slot EXCEPT ![r] = IdleSlot]
    /\ repeated' = [repeated EXCEPT ![r] = FALSE]
    /\ UNCHANGED <<builds, events, triggers, created, now>>

\* (slip: a rejected update() has written all the same)
StoredAnyway(store, object, ok) == [store EXCEPT ![object.id] = object]

\* build.update() / event.update(): the repository after the call settled
Stored(store, object, ok) ==
    IF ok THEN [store EXCEPT ![object.id] = object] ELSE store

\* the second .then(): the transition, then build.update() and
\* event.update() run concurrently and each may fail on its own
Persist(r, buildOk, eventOk) ==
    /\ slot[r].pc = "loaded"
    /\ LET s == slot[r]
           t == Transition(s.build, s.event, s.req, now)
       IN IF t.err # 0
          THEN /\ slot' = [slot EXCEPT ![r].pc = "done", ![r].reply = t.err]
               /\ UNCHANGED <<builds, events>>
          ELSE /\ builds' = Stored(builds, t.build, buildOk)
               /\ events' = Stored(events, t.event, eventOk)
               /\ slot' = [slot EXCEPT ![r] = [@ EXCEPT
                       !.build = t.build, !.event = t.event,
                       !.pc = IF buildOk /\ eventOk THEN "persisted"
                              ELSE "done",
                       !.reply = IF buildOk /\ eventOk THEN 0 ELSE Internal,
                       !.fault = (IF buildOk THEN {} ELSE {"build.update"})
                                 \cup (IF eventOk THEN {}
                                       ELSE {"event.update"})]]
    /\ UNCHANGED <<triggers, created, now, repeated>>

\* (slip: the guard only stops failed builds)
ShouldCascadeUnlessFailed(newBuild) == newBuild.status # "FAILURE"

\* (slip: the guard is left out)
ShouldCascadeAlways(newBuild) == TRUE

\* Guard against triggering non-successful or unstable builds
ShouldCascade(newBuild) == newBuild.status = "SUCCESS"

\* the third .then(): emit build_status, then the guard on SUCCESS and the
\* call of triggerNextJobs
Notify(r, emitOk) ==
    /\ slot[r].pc = "persisted"
    /\ LET s == slot[r] IN
       IF ~emitOk
       THEN slot' = [slot EXCEPT ![r].pc = "done", ![r].reply = Internal,
                                 ![r].fault = {"emit"}]
       ELSE IF ~ShouldCascade(s.build)
            THEN slot' = [slot EXCEPT ![r].pc = "done", ![r].reply = Ok,
                                      ![r].emitted = <<s.build.status>>]
            ELSE slot' = [slot EXCEPT ![r].pc = "cascade",
                                      ![r].emitted = <<s.build.status>>,
                                      ![r].cascade = TRUE]
    /\ UNCHANGED <<builds, events, triggers, created, now, repeated>>

\* (slip: a rejection of triggerNextJobs is swallowed)
ChainBrokenListOnly(nextOk, listOk) == ~listOk

\* triggerNextJobs(...).then(() => triggerFactory.list(...)).then(...):
\* a rejection of either skips the rest of the chain
ChainBroken(nextOk, listOk) == ~nextOk \/ ~listOk

\* triggerNextJobs settles; on success the registry is listed, the
\* destination ids are collected and triggerEvent is called for each
TriggerNextJobs(r, nextOk, listOk) ==
    /\ slot[r].pc = "cascade"
    /\ LET s == slot[r]
           ids == TriggeredPipelines(ListTriggers(triggers, SrcToken(s.build)))
       IN IF ChainBroken(nextOk, listOk)
          THEN slot' = [slot EXCEPT ![r].pc = "done", ![r].reply = Internal,
                          ![r].fault = IF ~nextOk THEN {"triggerNextJobs"}
                                       ELSE {"triggerFactory.list"}]
          ELSE slot' = [slot EXCEPT ![r] = [@ EXCEPT
                  !.listed = TRUE,
                  !.fault = IF nextOk THEN {} ELSE {"triggerNextJobs"},
                  !.ids = ids, !.pending = 1..Len(ids),
                  !.pc = IF Len(ids) = 0 THEN "done" ELSE "fanout",
                  !.reply = IF Len(ids) = 0 THEN Ok ELSE 0]]
    /\ UNCHANGED <<builds, events, triggers, created, now, repeated>>

\* (slip: the calls are made one after the other and stop at a failure)
RemainingUntilFailure(pending, i, ok) == IF ok THEN pending \ {i} ELSE {}

\* Promise.all(pipelineIds.map(...)): every call has been made, so the
\* calls still to settle after call i has settled are all the others
Remaining(pending, i, ok) == pending \ {i}

\* one triggerEvent call of the fan-out settles; Promise.all rejects with
\* the first failure and resolves when every call has succeeded
TriggerEvent(r, i, ok) ==
    /\ slot[r].pc = "fanout"
    /\ i \in slot[r].pending
    /\ LET s == slot[r]
           pending == Remaining(s.pending, i, ok)
       IN /\ created' =
                IF ok
                THEN Append(created,
                       [pipelineId |-> ParseInt(s.ids[i]),
                        startFrom |-> SrcToken(s.build),
                        causeMessage |-> <<"Triggered by build ",
                                           s.req.credentials.username>>,
                        parentBuildId |-> s.build.id])
                ELSE created
          /\ slot' = [slot EXCEPT ![r] = [@ EXCEPT
                  !.pending = pending,
                  !.settled = Append(s.settled, [call |-> i, ok |-> ok]),
                  !.fault = IF ok THEN s.fault
                            ELSE s.fault \cup {"triggerEvent"},
                  !.pc = IF pending = {} THEN "done" ELSE "fanout",
                  !.reply = IF s.reply # 0 THEN s.reply
                            ELSE IF ~ok THEN Internal
                            ELSE IF pending = {} THEN Ok ELSE 0]]
    /\ UNCHANGED <<builds, events, triggers, now, repeated>>

\* requests are handled one at a time
Sequential == \A r \in Slots : slot[r].pc \in {"idle", "done"}

Next ==
    \/ \E req \in Requests :
         Sequential /\ Begin(1, req) /\ UNCHANGED hookVars
    \/ \E buildOk, eventOk \in BOOLEAN :
         Persist(1, buildOk, eventOk) /\ UNCHANGED hookVars
    \/ \E emitOk \in BOOLEAN : Notify(1, emitOk) /\ UNCHANGED hookVars
    \/ \E nextOk, listOk \in BOOLEAN :
         TriggerNextJobs(1, nextOk, listOk) /\ UNCHANGED hookVars
    \/ \E i \in 1..Len(triggers), ok \in BOOLEAN :
         TriggerEvent(1, i, ok) /\ UNCHANGED hookVars
    \/ Sequential /\ Retry(1) /\ UNCHANGED hookVars
    \/ Finish(1) /\ UNCHANGED hookVars

Spec == Init /\ [][Next]_<<vars, hookVars>>

\* ------------------------------------------------------------ properties
Terminal == {"SUCCESS", "FAILURE", "ABORTED"}
\* slot r holds a request that was received
Handled(r) == slot[r].pc # "idle"
\* the request of slot r has run to its end
Over(r) == slot[r].pc = "done"
\* the request of slot r left the persisted build and event as they were
Untouched(r) ==
    /\ slot[r].req.id \in BuildIds =>
         /\ builds[slot[r].req.id] = slot[r].preBuild
         /\ events[slot[r].preBuild.eventId] = slot[r].preEvent
    /\ slot[r].req.id \notin BuildIds =>
         /\ builds = [b \in BuildIds |-> builds[b]]
         /\ slot[r].preBuild = NoBuild
\* the events the request of slot r has created (requests one at a time)
CreatedBy(r) == SubSeq(created, slot[r].mark + 1, Len(created))
\* the requester of slot r is a build token for the build it names
OwnToken(r) == IsBuild(slot[r].req) /\ ~CredentialMismatch(slot[r].req)
\* the requester of slot r may abort the build
MayAbort(r) ==
    \/ HasPush(slot[r].req.credentials.username,
               PipelineOfBuild[slot[r].preBuild.id])
    \/ IsAdmin(slot[r].req.credentials.username)

\* C1: a request on a build whose persisted status is SUCCESS, FAILURE or
\* ABORTED is answered Forbidden whoever sends it and whatever it carries;
\* the persisted build and event stay as they were, no build_status is
\* emitted and no cascade runs.
C1_TerminalImmutable ==
    \A r \in Slots :
        (Handled(r) /\ slot[r].preBuild.status \in Terminal) =>
            /\ Over(r)
            /\ slot[r].reply = Forbidden
            /\ Untouched(r)
            /\ slot[r].emitted = <<>>
            /\ ~slot[r].cascade
            /\ Len(created) = slot[r].mark

C1_Witness ==
    \E r \in Slots :
        /\ Over(r) /\ slot[r].reply = Forbidden
        /\ slot[r].preBuild.status = "SUCCESS"
        /\ OwnToken(r)
        /\ DesiredStatus(slot[r].req) = "RUNNING"

\* C2: a human requester on a QUEUED, RUNNING or BLOCKED build gets
\* BadRequest for every desiredStatus other than ABORTED (none included),
\* whatever the permissions; Unauthorized with nothing changed for ABORTED
\* without push permission and without administrator rights; and for ABORTED
\* with either of them the request is never refused, and once both updates
\* are through the build is persisted ABORTED with statusMessage
\* "Aborted by <username>" and endTime stamped, and the answer is 200.
C2_HumanAbort ==
    \A r \in Slots :
        (/\ Handled(r) /\ ~IsBuild(slot[r].req)
         /\ slot[r].preBuild.status \in {"QUEUED", "RUNNING", "BLOCKED"}) =>
            LET s == slot[r] IN
            /\ DesiredStatus(s.req) # "ABORTED" =>
                 Over(r) /\ s.reply = BadRequest /\ Untouched(r)
            /\ (DesiredStatus(s.req) = "ABORTED" /\ ~MayAbort(r)) =>
                 Over(r) /\ s.reply = Unauthorized /\ Untouched(r)
            /\ (DesiredStatus(s.req) = "ABORTED" /\ MayAbort(r)) =>
                 /\ s.reply \in {0, Ok, Internal}
                 /\ s.reply = Internal => s.fault # {}
                 /\ (Over(r) /\ s.fault = {}) => s.reply = Ok
                 /\ (s.pc # "loaded" /\ "build.update" \notin s.fault) =>
                      /\ builds[s.req.id].status = "ABORTED"
                      /\ builds[s.req.id].statusMessage =
                           <<"Aborted by ", s.req.credentials.username>>
                      /\ builds[s.req.id].endTime = now
                      /\ now # NoTime

C2_Witness ==
    \E r \in Slots :
        /\ Over(r) /\ slot[r].reply = Ok
        /\ slot[r].req.credentials.username = "root"
        /\ slot[r].preBuild.status = "RUNNING"
        /\ builds[slot[r].req.id].status = "ABORTED"

\* C3: an UNSTABLE build that its own build token sends SUCCESS stays
\* UNSTABLE; once the updates are through, endTime is set, build.meta is the
\* payload meta (empty if absent) and event.meta is the old event.meta
\* overridden key by key by that meta.
C3_UnstableClamp ==
    \A r \in Slots :
        (/\ Handled(r) /\ OwnToken(r)
         /\ slot[r].preBuild.status = "UNSTABLE"
         /\ DesiredStatus(slot[r].req) = "SUCCESS") =>
            LET s == slot[r]
                m == IF "meta" \in DOMAIN s.req.payload
                     THEN s.req.payload.meta ELSE <<>>
                b == builds[s.req.id]
                e == events[s.preBuild.eventId]
            IN
            /\ b.status = "UNSTABLE"
            /\ s.reply \in {0, Ok, Internal}
            /\ (Over(r) /\ s.fault = {}) => s.reply = Ok
            /\ (s.pc # "loaded" /\ "build.update" \notin s.fault) =>
                 /\ b.endTime = now /\ now # NoTime
                 /\ b.meta = m
            /\ (s.pc # "loaded" /\ "event.update" \notin s.fault) =>
                 /\ DOMAIN e.meta = DOMAIN s.preEvent.meta \cup DOMAIN m
                 /\ \A k \in DOMAIN e.meta :
                      e.meta[k] = IF k \in DOMAIN m THEN m[k]
                                  ELSE s.preEvent.meta[k]

C3_Witness ==
    \E r \in Slots :
        /\ Over(r) /\ slot[r].reply = Ok
        /\ slot[r].preBuild.status = "UNSTABLE"
        /\ DesiredStatus(slot[r].req) = "SUCCESS"
        /\ slot[r].preEvent.meta = [a |-> 2, b |-> 2]
        /\ events[1].meta = [a |-> 1, b |-> 2]
        /\ builds[1].status = "UNSTABLE" /\ builds[1].endTime # NoTime

\* C4: within a request the cascade is started exactly when the build the
\* request persisted has status SUCCESS: a request that reaches the guard
\* starts it if and only if that status is SUCCESS, and it is never started
\* without a desiredStatus, for another resulting status, or for an UNSTABLE
\* build that was sent SUCCESS.
C4_CascadeOnlyOnSuccess ==
    \A r \in Slots :
        LET s == slot[r] IN
        Handled(r) =>
        /\ s.cascade =>
             /\ builds[s.req.id].status = "SUCCESS"
             /\ builds[s.req.id] = s.build
             /\ DesiredStatus(s.req) = "SUCCESS"
             /\ s.preBuild.status # "UNSTABLE"
        /\ s.emitted # <<>> =>
             (s.cascade <=> builds[s.req.id].status = "SUCCESS")
        /\ s.pc \in {"cascade", "fanout"} => s.cascade
        /\ (s.listed \/ "triggerNextJobs" \in s.fault
            \/ "triggerFactory.list" \in s.fault
            \/ Len(created) > s.mark) => s.cascade

C4_Witness ==
    \E r \in Slots :
        /\ Over(r) /\ slot[r].reply = Ok /\ slot[r].cascade
        /\ slot[r].preBuild.status = "BLOCKED"
        /\ builds[slot[r].req.id].status = "SUCCESS"

\* the source token of the build named by slot r, "~sd@<P.id>:<J.name>"
SrcOf(r) == [pipelineId |-> Digits(PipelineOfBuild[slot[r].req.id]),
             jobName |-> JobOfBuild[slot[r].req.id]]
\* the pipelines the registry names as destinations of that token
DestinationsOf(r) ==
    {ParseInt(triggers[i].dest.pipelineId) :
       i \in {j \in 1..Len(triggers) : triggers[j].src = SrcOf(r)}}
\* how many of the events created by slot r are on pipeline p
EventsOn(r, p) ==
    Cardinality({i \in 1..Len(CreatedBy(r)) : CreatedBy(r)[i].pipelineId = p})

\* C5: when a build reaches SUCCESS and the cascade completes, exactly one
\* event has been created for each distinct destination pipeline of the
\* records whose src is the build's token, each with startFrom = that token
\* and parentBuildId = the build's id, and none for any other pipeline.
C5_OneEventPerDestination ==
    \A r \in Slots :
        (Over(r) /\ slot[r].cascade /\ slot[r].reply = Ok) =>
            /\ \A p \in DestinationsOf(r) : EventsOn(r, p) = 1
            /\ \A i \in 1..Len(CreatedBy(r)) :
                 /\ CreatedBy(r)[i].pipelineId \in DestinationsOf(r)
                 /\ CreatedBy(r)[i].startFrom = SrcOf(r)
                 /\ CreatedBy(r)[i].parentBuildId = slot[r].req.id

C5_Witness ==
    \E r \in Slots :
        /\ Over(r) /\ slot[r].cascade /\ slot[r].reply = Ok
        /\ Len(CreatedBy(r)) = 2
        /\ {CreatedBy(r)[i].pipelineId : i \in 1..2} = {9, 12}
        /\ Cardinality({j \in 1..Len(triggers) :
                          /\ triggers[j].src = SrcOf(r)
                          /\ ParseInt(triggers[j].dest.pipelineId) = 9}) = 3

\* call i of the fan-out of slot r has settled, with this outcome
Settled(r, i, ok) ==
    \E j \in 1..Len(slot[r].settled) :
        slot[r].settled[j] = [call |-> i, ok |-> ok]

\* C6: in the fan-out every distinct destination gets its triggerEvent call
\* whatever happens to the others: a call is outstanding or has settled,
\* and when the fan-out is over every destination whose own creation did
\* not fail has its event.
C6_FanOutIndependent ==
    \A r \in Slots :
        (Handled(r) /\ slot[r].listed) =>
            /\ \A i \in 1..Len(slot[r].ids) :
                 \/ i \in slot[r].pending
                 \/ Settled(r, i, TRUE) \/ Settled(r, i, FALSE)
            /\ Over(r) =>
                 /\ slot[r].pending = {}
                 /\ \A i \in 1..Len(slot[r].ids) :
                      Settled(r, i, FALSE)
                      \/ EventsOn(r, ParseInt(slot[r].ids[i])) = 1

C6_Witness ==
    \E r \in Slots :
        /\ Over(r) /\ slot[r].reply = Internal
        /\ Len(slot[r].settled) = 2
        /\ ~slot[r].settled[1].ok /\ slot[r].settled[2].ok
        /\ Len(CreatedBy(r)) = 1

\* C7 as claimed: after a failure of triggerNextJobs the registry is still
\* consulted and the events of the registered destinations are created.
C7_Original ==
    \A r \in Slots :
        (Over(r) /\ "triggerNextJobs" \in slot[r].fault) =>
            /\ slot[r].listed
            /\ \A p \in DestinationsOf(r) :
                 EventsOn(r, p) = 1 \/ "triggerEvent" \in slot[r].fault

\* C7 (amended): a failure of triggerNextJobs is not rolled back, the build
\* and event stay persisted, but it ends the cascade: the registry is not
\* consulted, no event is created and the request is answered with the error.
C7_NextJobsFailureEndsCascade ==
    \A r \in Slots :
        (Handled(r) /\ "triggerNextJobs" \in slot[r].fault) =>
            /\ Over(r)
            /\ slot[r].reply = Internal
            /\ ~slot[r].listed
            /\ CreatedBy(r) = <<>>
            /\ builds[slot[r].req.id] = slot[r].build
            /\ builds[slot[r].req.id].status = "SUCCESS"
            /\ events[slot[r].build.eventId] = slot[r].event

C7_Witness ==
    \E r \in Slots :
        /\ Over(r) /\ slot[r].fault = {"triggerNextJobs"}
        /\ DestinationsOf(r) = {9, 12}
        /\ slot[r].preBuild.status = "RUNNING"
        /\ builds[slot[r].req.id].status = "SUCCESS"

\* C8 as claimed: every request on an id that no build has fails NotFound.
C8_Original ==
    \A r \in Slots :
        (Handled(r) /\ slot[r].req.id \notin BuildIds) =>
            slot[r].reply = NotFound

\* C8 (amended): a request on an id that no build has fails NotFound when
\* it comes from a human or from the build token of that id, whatever the
\* payload; a build token of another id is refused Forbidden before the
\* build is looked up.
C8_NotFoundUnlessForeignToken ==
    \A r \in Slots :
        (Handled(r) /\ slot[r].req.id \notin BuildIds) =>
            LET c == slot[r].req.credentials
                foreign == /\ c.scope \cap {"build", "temporal"} # {}
                           /\ c.username # ToString(slot[r].req.id)
            IN /\ Over(r)
               /\ slot[r].reply = IF foreign THEN Forbidden ELSE NotFound
               /\ Untouched(r)

C8_Witness ==
    \E r \in Slots :
        /\ Over(r) /\ slot[r].req.id = 3 /\ slot[r].reply = NotFound
        /\ slot[r].req.credentials = [username |-> "3", scope |-> {"build"}]
        /\ DesiredStatus(slot[r].req) = "SUCCESS"

\* C9: a request of the build's own token without desiredStatus on a
\* non-terminal build leaves status, startTime, endTime, meta and the
\* event's meta alone; once the build is updated its statusMessage is the
\* supplied one (the old one when none is supplied) and its stats are the
\* old stats overridden key by key by the supplied ones; the same request
\* sent again changes nothing further.
C9_NoStatusUpdate ==
    \A r \in Slots :
        (/\ Handled(r) /\ OwnToken(r)
         /\ slot[r].preBuild.status \in {"RUNNING", "QUEUED", "BLOCKED",
                                         "UNSTABLE"}
         /\ "status" \notin DOMAIN slot[r].req.payload) =>
            LET s == slot[r]
                p == s.req.payload
                b == builds[s.req.id]
                given == IF "stats" \in DOMAIN p THEN p.stats ELSE <<>>
            IN
            /\ s.reply \in {0, Ok, Internal}
            /\ (Over(r) /\ s.fault = {}) => s.reply = Ok
            /\ ~s.cascade
            /\ b.status = s.preBuild.status
            /\ b.startTime = s.preBuild.startTime
            /\ b.endTime = s.preBuild.endTime
            /\ b.meta = s.preBuild.meta
            /\ events[s.preBuild.eventId] = s.preEvent
            /\ (s.pc # "loaded" /\ "build.update" \notin s.fault) =>
                 /\ b.statusMessage = IF "statusMessage" \in DOMAIN p
                                      THEN p.statusMessage
                                      ELSE s.preBuild.statusMessage
                 /\ DOMAIN b.stats = DOMAIN s.preBuild.stats \cup DOMAIN given
                 /\ \A k \in DOMAIN b.stats :
                      b.stats[k] = IF k \in DOMAIN given THEN given[k]
                                   ELSE s.preBuild.stats[k]
            /\ repeated[r] => Untouched(r)

C9_Witness ==
    \E r \in Slots :
        /\ Over(r) /\ slot[r].reply = Ok /\ repeated[r] /\ OwnToken(r)
        /\ slot[r].req.payload =
             [statusMessage |-> <<"m1">>, meta |-> [a |-> 1],
              stats |-> [x |-> 1]]
        /\ builds[slot[r].req.id].stats = [x |-> 1, y |-> 2]
        /\ builds[slot[r].req.id].statusMessage = <<"m1">>

\* C10 as claimed: endTime is set only on builds whose status is SUCCESS,
\* FAILURE or ABORTED, and a request changes startTime only if it leaves
\* the build RUNNING.
C10_Original ==
    /\ \A b \in BuildIds :
         builds[b].endTime # NoTime => builds[b].status \in Terminal
    /\ \A r \in Slots :
         (/\ Handled(r) /\ slot[r].req.id \in BuildIds
          /\ builds[slot[r].req.id].startTime # slot[r].preBuild.startTime)
         => builds[slot[r].req.id].status = "RUNNING"

\* C10 (amended): endTime is set only on builds whose status is SUCCESS,
\* FAILURE, ABORTED or UNSTABLE, and a request sets it only with one of the
\* first three as desiredStatus; a request changes startTime only with
\* desiredStatus RUNNING, which leaves the build RUNNING or, when it was
\* UNSTABLE, UNSTABLE.
C10_Timestamps ==
    /\ \A b \in BuildIds :
         builds[b].endTime # NoTime =>
             builds[b].status \in Terminal \cup {"UNSTABLE"}
    /\ \A r \in Slots :
         (Handled(r) /\ slot[r].req.id \in BuildIds) =>
            LET s == slot[r]
                b == builds[s.req.id]
                kept == s.preBuild.status = "UNSTABLE"
                        /\ b.status = "UNSTABLE"
            IN
            /\ b.endTime # s.preBuild.endTime =>
                 /\ DesiredStatus(s.req) \in Terminal
                 /\ b.status = DesiredStatus(s.req) \/ kept
            /\ b.startTime # s.preBuild.startTime =>
                 /\ DesiredStatus(s.req) = "RUNNING"
                 /\ b.status = "RUNNING" \/ kept

C10_Witness ==
    \E r \in Slots :
        /\ Over(r) /\ slot[r].reply = Ok
        /\ builds[1].status = "UNSTABLE"
        /\ builds[1].endTime # NoTime
        /\ builds[1].startTime # slot[r].preBuild.startTime
        /\ builds[1].startTime > builds[1].endTime

\* ================================================== webhook router (POST /webhooks)
\* bound: how often the SCM delivers the notification
MaxDeliveries == 2

NoContent == 204
Created == 201
\* const WAIT_FOR_CHANGEDFILES = 1.8: the wait is a step of its own and
\* has no length in the model

\* ------------------------------------------------------ strings as sequences
\* String.prototype.includes, and RegExp.prototype.test of a literal
Includes(hay, needle) ==
    \E i \in 0..(Len(hay) - Len(needle)) :
        \A k \in 1..Len(needle) : hay[i + k] = needle[k]

SkipMarkerFirstOnly(message) ==
    Includes(message, <<"[", "skip", " ", "ci", "]">>)

\* /\[(skip ci|ci skip)\]/.test(parsed.lastCommitMessage)
SkipMarker(message) ==
    \/ Includes(message, <<"[", "skip", " ", "ci", "]">>)
    \/ Includes(message, <<"[", "ci", " ", "skip", "]">>)

\* `PR-${prNum}`
PrName(prNum) ==
    <<"P", "R", "-">> \o [i \in 1..Len(Digits(prNum)) |->
                            ToString(Digits(prNum)[i])]

\* --------------------------------------------------------------- the SCM
\* the branches scm.getBranchList reports for the repository of the hook
BranchList == <<[name |-> "master"], [name |-> "dev"], [name |-> "rel"]>>
\* scm.parseUrl({ checkoutUrl: `${checkoutUrl}#${branch}` }): the hooks all
\* come from repository 123
ParseUrl(branch) == <<"github.com", "123", branch>>
\* scm.getCommitSha(scmConfig): the commit the SCM reports for this config
GetCommitSha(scmConfig) == [at |-> scmConfig.scmUri, prNum |-> scmConfig.prNum]
\* scm.getPrInfo(scmConfig)
GetPrInfo(scmConfig) == [url |-> scmConfig.scmUri, num |-> scmConfig.prNum]

\* ------------------------------------------------------------ the pipelines
PipelineIds == {1, 2, 3, 4}
\* workflow triggers a pipeline has jobs for, as <<kind, branch>>
Pipeline(id, scmUri, startsFrom, annotations) ==
    [id |-> id, scmUri |-> scmUri, startsFrom |-> startsFrom,
     annotations |-> annotations]
BranchOfMaster(p) == "master"

\* pipeline.branch
BranchOf(p) == p.scmUri[3]
RestrictKey == "beta.screwdriver.cd/restrict-pr"
AnnotationChoices ==
    {EmptyMap} \cup {(RestrictKey :> r) :
                       r \in {"none", "all", "branch", "fork", "other"}}
\* pipeline 1 is registered at master (or not at all), pipeline 2 at dev,
\* pipeline 3 at rel, pipeline 4 at dev of another repository
MasterChoices ==
    {EmptyMap} \cup {(1 :> Pipeline(1, <<"github.com", "123", "master">>,
                                    {<<"commit", "rel">>}, a)) :
                       a \in AnnotationChoices}
DevChoices ==
    {(2 :> Pipeline(2, <<"github.com", "123", "dev">>, t, a)) :
       t \in {{}, {<<"pr", "master">>},
              {<<"commit", "master">>, <<"pr", "master">>}},
       a \in {EmptyMap, (RestrictKey :> "fork")}}
OtherPipelines ==
    (3 :> Pipeline(3, <<"github.com", "123", "rel">>,
                   {<<"commit", "dev">>, <<"pr", "rel">>}, EmptyMap))
    @@ (4 :> Pipeline(4, <<"github.com", "456", "dev">>,
                      {<<"commit", "master">>, <<"pr", "master">>}, EmptyMap))
PipelineWorlds ==
    {Merge(Merge(m, d), OtherPipelines) : m \in MasterChoices, d \in DevChoices}

\* pipelineFactory.get({ scmUri }): 0 stands for null
PipelineAt(scmUri) ==
    IF \E id \in DOMAIN pipelines : pipelines[id].scmUri = scmUri
    THEN CHOOSE id \in DOMAIN pipelines : pipelines[id].scmUri = scmUri
    ELSE 0

\* the ids of a set of pipelines in the order the factory lists them
RECURSIVE Ascending(_)
Ascending(ids) ==
    IF ids = {} THEN <<>>
    ELSE LET least == CHOOSE x \in ids : \A y \in ids : x <= y
         IN <<least>> \o Ascending(ids \ {least})
\* pipelineFactory.list({ params: { scmUri: scmUris } })
ListPipelines(scmUris) ==
    Ascending({id \in DOMAIN pipelines :
                 \E i \in 1..Len(scmUris) : pipelines[id].scmUri = scmUris[i]})

HasTriggeredJobAny(p, startFrom) == p.startsFrom # {}

\* workflowParser.getNextJobs(pipeline.workflowGraph, { trigger }).length > 0
HasTriggeredJob(p, startFrom) == startFrom \in p.startsFrom

\* triggeredPipelines(pipelineFactory, scmConfig, branch, type)
TriggeredPipelinesOf(scmUri, branch, type) ==
    LET others == SelectSeq(BranchList, LAMBDA b : b.name # branch)
        scmUris == [i \in 1..Len(others) |->
                      <<scmUri[1], scmUri[2], others[i].name>>]
        eventType == IF type = "pr" THEN "pr" ELSE "commit"
        subscribed == SelectSeq(ListPipelines(scmUris),
                        LAMBDA id : HasTriggeredJob(pipelines[id],
                                                    <<eventType, branch>>))
    IN IF PipelineAt(scmUri) # 0
       THEN Append(subscribed, PipelineAt(scmUri))
       ELSE subscribed

IsRestrictedPRAllOnly(restriction, prSource) == restriction = "all"

\* isRestrictedPR(restriction, prSource)
IsRestrictedPR(restriction, prSource) ==
    IF restriction = "all" THEN TRUE
    ELSE IF restriction \in {"branch", "fork"} THEN prSource = restriction
    ELSE FALSE
RestrictionDefaultAll(p) ==
    IF RestrictKey \in DOMAIN p.annotations THEN p.annotations[RestrictKey]
    ELSE "all"

\* p.annotations['beta.screwdriver.cd/restrict-pr'] || 'none'
Restriction(p) ==
    IF RestrictKey \in DOMAIN p.annotations THEN p.annotations[RestrictKey]
    ELSE "none"

\* ------------------------------------------------------ jobs and their builds
JobIds == {11, 13, 14}
\* the job names of pipeline 1: "PR-1:m", "PR-10:m" and "m"
JobsInit ==
    (11 :> [name |-> <<"P", "R", "-", "1", ":", "m">>, pipelineId |-> 1,
            archived |-> FALSE])
    @@ (13 :> [name |-> <<"P", "R", "-", "1", "0", ":", "m">>,
               pipelineId |-> 1, archived |-> FALSE])
    @@ (14 :> [name |-> <<"m">>, pipelineId |-> 1, archived |-> FALSE])
PrBuildIds == {101, 102, 103, 104}
PrBuild(jobId, status) ==
    [jobId |-> jobId, status |-> status, statusMessage |-> NoMessage]
\* build 101 of PR-1:m is running or over, 102 of PR-1:m is queued,
\* 103 of PR-10:m and 104 of m are running
BuildWorlds ==
    {(101 :> PrBuild(11, st)) @@ (102 :> PrBuild(11, "QUEUED"))
     @@ (103 :> PrBuild(13, "RUNNING")) @@ (104 :> PrBuild(14, "RUNNING")) :
       st \in {"RUNNING", "SUCCESS"}}
IsDoneNever(build) == FALSE

\* build.isDone()
IsDone(build) == build.status \in {"ABORTED", "FAILURE", "SUCCESS"}
\* pipeline.jobs of the synced pipeline p
JobsOf(p) == {j \in DOMAIN jobs : jobs[j].pipelineId = p}
\* jobs.filter(j => j.name.includes(name))
PrJobsOf(p, name) == {j \in JobsOf(p) : Includes(jobs[j].name, name)}
\* job.getRunningBuilds() followed by the isDone() test of stopJob
ToStop(js) ==
    {b \in DOMAIN prBuilds : prBuilds[b].jobId \in js /\ ~IsDone(prBuilds[b])}
\* the statusMessage stopJob writes
AbortMessage(action, prNum) ==
    IF action = "Closed"
    THEN <<"Aborted because PR#", prNum, " was closed">>
    ELSE <<"Aborted because new commit was pushed to PR#", prNum>>
\* build.status = 'ABORTED'; build.statusMessage = ...
Stopped(build, action, prNum) ==
    [build EXCEPT !.status = "ABORTED",
                  !.statusMessage = AbortMessage(action, prNum)]

\* ------------------------------------------------------------ notifications
\* action.charAt(0).toUpperCase() + action.slice(1)
Capitalize(action) ==
    CASE action = "opened" -> "Opened"
      [] action = "reopened" -> "Reopened"
      [] action = "synchronized" -> "Synchronized"
      [] action = "closed" -> "Closed"
      [] OTHER -> action
Messages ==
    {<<"fix", " ", "bug">>,
     <<"fix", " ", "[", "skip", " ", "ci", "]">>,
     <<"[", "ci", " ", "skip", "]", " ", "fix">>,
     <<"[", "skip", "ci", "]">>,
     <<"skip", " ", "ci">>}
Users == {"dev1", "bot"}
PrHooks ==
    {[type |-> "pr", action |-> a, branch |-> b, prNum |-> 1,
      prSource |-> src, username |-> u, lastCommitMessage |-> m,
      sha |-> "abc"] :
       a \in {"opened", "reopened", "synchronized", "closed"},
       b \in {"master", "dev"}, src \in {"branch", "fork"},
       u \in Users, m \in Messages}
PushHooks ==
    {[type |-> "repo", action |-> "push", branch |-> b, prNum |-> 0,
      prSource |-> "", username |-> u, lastCommitMessage |-> m,
      sha |-> "abc"] :
       b \in {"master", "dev"}, u \in Users, m \in Messages}
\* what scm.parseHook may resolve to: every action, branch and origin from
\* dev1 with a plain message, every user and message for three of them
Hooks ==
    {h \in PrHooks \cup PushHooks :
       \/ h.username = "dev1" /\ h.lastCommitMessage = <<"fix", " ", "bug">>
       \/ /\ h.action \in {"synchronized", "closed", "push"}
          /\ h.branch = "master"
          /\ h.prSource \in {"branch", ""}}
    \cup {NoHook}
\* the options the plugin may be registered with: ignoreCommitsBy is optional
OptionChoices ==
    {[username |-> "sd-buildbot"],
     [username |-> "sd-buildbot", ignoreCommitsBy |-> <<"bot">>]}
\* ignoreUser.includes(username)
IgnoredUser(username) ==
    \E i \in 1..Len(options.ignoreCommitsBy) :
        options.ignoreCommitsBy[i] = username

HookInit ==
    /\ BuildInit
    /\ pipelines \in PipelineWorlds
    /\ jobs = JobsInit
    /\ prBuilds \in BuildWorlds
    /\ options \in OptionChoices
    /\ hook = IdleHook
    /\ delivered = 0

\* ------------------------------------------------------- the handler, by step
\* reply(boom.boomify(err)): a promise chain rejects once, so only the first
\* failure of a request is answered
Fail(h) ==
    IF h.failed THEN h
    ELSE [h EXCEPT !.replies = Append(@, Internal), !.failed = TRUE]
CrashSwallowed(h) == [h EXCEPT !.fault = TRUE]

\* a collaborator call rejects or throws
Crash(h) == Fail([h EXCEPT !.fault = TRUE])
AnswerCreated(h, code) == [h EXCEPT !.replies = Append(@, Created)]

\* reply().code(code)
Answer(h, code) == [h EXCEPT !.replies = Append(@, code)]
End(h) == [h EXCEPT !.pc = "done"]

\* handler of POST /webhooks up to the wait for the changed files
Arrive(parsed, parseOk) ==
    LET h == [IdleHook EXCEPT !.parsed = parsed, !.last = hook.replies,
                              !.before = [jobs |-> jobs, builds |-> prBuilds]]
    IN /\ delivered < MaxDeliveries
       /\ delivered' = delivered + 1
       /\ hook' = IF ~parseOk THEN End(Crash(h))
                  ELSE IF parsed = NoHook THEN End(Answer(h, NoContent))
                  ELSE IF SkipMarker(parsed.lastCommitMessage)
                       THEN End(Answer(h, NoContent))
                  \* ignoreUser is undefined: ignoreUser.includes throws
                  ELSE IF "ignoreCommitsBy" \notin DOMAIN options
                       THEN End(Fail(h))
                  ELSE IF IgnoredUser(parsed.username)
                       THEN End(Answer(h, NoContent))
                  ELSE [h EXCEPT !.pc = "wait"]
       /\ UNCHANGED <<pipelines, jobs, prBuilds, options>>

Receive(parsed, parseOk) ==
    /\ hook.pc = "idle"
    /\ Arrive(parsed, parseOk)

\* the SCM delivers the same notification again
Redeliver(parseOk) ==
    /\ hook.pc = "done"
    /\ Arrive(hook.parsed, parseOk)

\* promiseToWait, obtainScmToken and scm.getChangedFiles
Prepare(ok) ==
    /\ hook.pc = "wait"
    /\ hook' = IF ok THEN [hook EXCEPT !.pc = "dispatch"] ELSE End(Crash(hook))
    /\ UNCHANGED <<pipelines, jobs, prBuilds, options, delivered>>

\* pullRequestEvent and pushEvent up to the dispatch on the action
Resolve(ok, getOk) ==
    LET parsed == hook.parsed
        scmUri == ParseUrl(parsed.branch)
        fan == TriggeredPipelinesOf(scmUri, parsed.branch, parsed.type)
        pipeline == PipelineAt(scmUri)
        h == [hook EXCEPT !.resolved = fan]
    IN /\ hook.pc = "dispatch"
       /\ hook' =
            IF ~ok THEN End(Crash(hook))
            ELSE IF fan = <<>> THEN End(Answer(h, NoContent))
            ELSE IF parsed.type # "pr"
                 THEN [h EXCEPT !.pc = "create", !.todo = fan]
            ELSE IF ~getOk THEN End(Crash(h))
            ELSE IF pipeline # 0
                 THEN [h EXCEPT !.pc = "sync", !.pipeline = pipeline]
            ELSE IF parsed.action \in {"opened", "reopened", "synchronized"}
                 THEN [h EXCEPT !.pc = "fanout"]
            ELSE End(Answer(h, NoContent))
       /\ UNCHANGED <<pipelines, jobs, prBuilds, options, delivered>>

\* pullRequestOpened, pullRequestSync and pullRequestClosed from
\* pipeline.sync() to the start of the build updates; unlisted are the jobs
\* whose getRunningBuilds() rejects
Sync(syncOk, jobsOk, unlisted) ==
    LET parsed == hook.parsed
        p == pipelines[hook.pipeline]
        h == [hook EXCEPT !.synced = @ + 1]
        prJobs == PrJobsOf(hook.pipeline, PrName(parsed.prNum))
        listed == prJobs \ unlisted
        g == [h EXCEPT !.prJobs = prJobs, !.stopping = ToStop(listed),
                       !.broken = unlisted]
        f == IF unlisted = {} THEN g ELSE Crash(g)
    IN /\ hook.pc = "sync"
       /\ unlisted \subseteq prJobs
       /\ hook' =
            IF ~syncOk THEN End(Crash(hook))
            ELSE IF parsed.action \in {"opened", "reopened"}
                 THEN IF IsRestrictedPR(Restriction(p), parsed.prSource)
                      THEN End(Answer(h, NoContent))
                      ELSE [h EXCEPT !.pc = "fanout"]
            ELSE IF parsed.action = "synchronized"
                 THEN IF IsRestrictedPR(Restriction(p), parsed.prSource)
                      THEN End(Answer(h, NoContent))
                      ELSE IF ~jobsOk THEN End(Crash(h))
                      ELSE IF f.stopping # {} THEN [f EXCEPT !.pc = "stop"]
                      ELSE IF f.failed THEN End(f)
                      ELSE [f EXCEPT !.pc = "fanout"]
            ELSE IF ~jobsOk THEN End(Crash(h))
                 ELSE IF listed # {}
                      THEN [f EXCEPT !.pc = "close", !.archiving = listed]
                 ELSE IF f.failed THEN End(f)
                 ELSE End(Answer(f, Ok))
       /\ UNCHANGED <<pipelines, jobs, prBuilds, options, delivered>>

UnfinishedNone(h) == {}

\* the jobs whose chain is still to finish once the update of build b settled
Unfinished(h) ==
    h.archiving \cup {prBuilds[b].jobId : b \in h.stopping}

\* stopJob: one build.update() settles
StopBuild(b, ok) ==
    LET parsed == hook.parsed
        job == prBuilds[b].jobId
        h == [hook EXCEPT !.stopping = @ \ {b}]
        good == [h EXCEPT !.aborted = @ \cup {b}]
        bad == Crash([h EXCEPT !.broken = @ \cup {job},
                              !.archiving = @ \ {job}])
        g == IF ok THEN good ELSE bad
    IN /\ hook.pc \in {"stop", "close"}
       /\ b \in hook.stopping
       /\ prBuilds' = IF ok
                      THEN [prBuilds EXCEPT ![b] =
                              Stopped(@, Capitalize(parsed.action),
                                      parsed.prNum)]
                      ELSE prBuilds
       /\ hook' = IF Unfinished(g) # {} THEN g
                  ELSE IF g.failed THEN End(g)
                  ELSE [g EXCEPT !.pc = "fanout"]
       /\ UNCHANGED <<pipelines, jobs, options, delivered>>

\* (slip: the archive does not wait for stopJob)
BuildsPendingNone(j) == {}

\* the build updates of job j that stopJob(job) is still waiting for
BuildsPending(j) == {b \in hook.stopping : prBuilds[b].jobId = j}

\* updatePRJobs: job.archived = true; job.update() settles
ArchiveJob(j, ok) ==
    LET h == [hook EXCEPT !.archiving = @ \ {j}]
        g == IF ok THEN h ELSE Crash([h EXCEPT !.broken = @ \cup {j}])
    IN /\ hook.pc = "close"
       /\ j \in hook.archiving
       /\ BuildsPending(j) = {}
       /\ jobs' = IF ok THEN [jobs EXCEPT ![j].archived = TRUE] ELSE jobs
       /\ hook' = IF Unfinished(g) # {} THEN g
                  ELSE IF g.failed THEN End(g)
                  ELSE End(Answer(g, Ok))
       /\ UNCHANGED <<pipelines, prBuilds, options, delivered>>

\* createPREvents: await triggeredPipelines(pipelineFactory, scmConfig,
\* branch, 'pr')
Fanout(ok) ==
    LET parsed == hook.parsed
        fan == TriggeredPipelinesOf(ParseUrl(parsed.branch), parsed.branch,
                                    "pr")
    IN /\ hook.pc = "fanout"
       /\ hook' = IF ~ok THEN End(Crash(hook))
                  ELSE IF fan = <<>> THEN End(Answer(hook, Created))
                  ELSE [hook EXCEPT !.pc = "create", !.todo = fan]
       /\ UNCHANGED <<pipelines, jobs, prBuilds, options, delivered>>

ScmDisplayName == "github"
\* `${scmDisplayName}:${username}`
UserDisplayName(username) == <<ScmDisplayName, ":", username>>

\* the eventConfig createPREvents builds for pipeline p
PrEventConfig(p, parsed) ==
    LET scmConfig == [scmUri |-> ParseUrl(parsed.branch),
                      prNum |-> parsed.prNum]
        eventConfig ==
            [pipelineId |-> p.id, type |-> "pipeline", webhooks |-> TRUE,
             username |-> parsed.username, sha |-> parsed.sha,
             configPipelineSha |-> GetCommitSha(scmConfig),
             startFrom |-> <<"~pr", parsed.branch>>,
             causeMessage |-> <<Capitalize(parsed.action), " by ">>
                              \o UserDisplayName(parsed.username)]
    IN IF BranchOf(p) = parsed.branch
       THEN Merge([prRef |-> <<"pull", parsed.prNum>>,
                   prNum |-> parsed.prNum, prInfo |-> GetPrInfo(scmConfig)],
                  [eventConfig EXCEPT !.type = "pr",
                                      !.startFrom = <<"~pr">>])
       ELSE eventConfig

\* the eventConfig createEvents builds for pipeline p
PushEventConfig(p, parsed) ==
    LET scmConfig == [scmUri |-> p.scmUri, prNum |-> 0]
    IN [pipelineId |-> p.id, type |-> "pipeline", webhooks |-> TRUE,
        username |-> parsed.username, sha |-> parsed.sha,
        configPipelineSha |-> GetCommitSha(scmConfig),
        startFrom |-> IF BranchOf(p) = parsed.branch THEN <<"~commit">>
                      ELSE <<"~commit", parsed.branch>>,
        commitBranch |-> parsed.branch,
        causeMessage |-> <<"Merged by ", parsed.username>>]

EventConfig(p, parsed) ==
    IF parsed.type = "pr" THEN PrEventConfig(p, parsed)
    ELSE PushEventConfig(p, parsed)

\* one turn of the loop of createEvents or createPREvents, and after the
\* last turn the Promise.all and the reply
CreateEvent(lookupOk, createOk) ==
    LET p == pipelines[Head(hook.todo)]
        h == [hook EXCEPT !.todo = Tail(@)]
        g == IF createOk
             THEN [h EXCEPT !.made = Append(@, EventConfig(p, hook.parsed))]
             ELSE [h EXCEPT !.rejected = TRUE, !.fault = TRUE]
    IN /\ hook.pc = "create"
       /\ hook.todo # <<>>
       /\ hook' = IF ~lookupOk THEN End(Crash([hook EXCEPT !.todo = <<>>]))
                  ELSE IF g.todo # <<>> THEN g
                  ELSE IF g.rejected THEN End(Crash(g))
                  ELSE End(Answer(g, Created))
       /\ UNCHANGED <<pipelines, jobs, prBuilds, options, delivered>>

HookNext ==
    \/ \E parsed \in Hooks, ok \in BOOLEAN :
         Receive(parsed, ok) /\ UNCHANGED vars
    \/ \E ok \in BOOLEAN : Redeliver(ok) /\ UNCHANGED vars
    \/ \E ok \in BOOLEAN : Prepare(ok) /\ UNCHANGED vars
    \/ \E ok, getOk \in BOOLEAN : Resolve(ok, getOk) /\ UNCHANGED vars
    \/ \E syncOk, jobsOk \in BOOLEAN, unlisted \in SUBSET JobIds :
         Sync(syncOk, jobsOk, unlisted) /\ UNCHANGED vars
    \/ \E b \in PrBuildIds, ok \in BOOLEAN : StopBuild(b, ok) /\ UNCHANGED vars
    \/ \E j \in JobIds, ok \in BOOLEAN : ArchiveJob(j, ok) /\ UNCHANGED vars
    \/ \E ok \in BOOLEAN : Fanout(ok) /\ UNCHANGED vars
    \/ \E lookupOk, createOk \in BOOLEAN :
         CreateEvent(lookupOk, createOk) /\ UNCHANGED vars

HookSpec == HookInit /\ [][HookNext]_<<vars, hookVars>>

\* ------------------------------------------------------ properties: helpers
\* the notification has been taken up
Taken == hook.pc # "idle"
HookOver == hook.pc = "done"
\* the jobs and builds are as they were when the notification arrived
StoreUntouched == jobs = hook.before.jobs /\ prBuilds = hook.before.builds
\* the payload was parsed and one of the suppression rules applies
SuppressedHook ==
    \/ hook.parsed = NoHook
    \/ Includes(hook.parsed.lastCommitMessage, <<"[", "skip", " ", "ci", "]">>)
    \/ Includes(hook.parsed.lastCommitMessage, <<"[", "ci", " ", "skip", "]">>)
    \/ /\ "ignoreCommitsBy" \in DOMAIN options
       /\ IgnoredUser(hook.parsed.username)

\* C11: a notification whose parse result is null, whose last commit message
\* carries [skip ci] or [ci skip], or whose user is in the configured
\* ignore-list is answered 204 and nothing else happens: no event, no sync,
\* no aborted build, no archived job
C11_SuppressedIsNoOp ==
    (Taken /\ ~hook.fault /\ SuppressedHook) =>
        /\ HookOver
        /\ hook.replies = <<NoContent>>
        /\ hook.made = <<>>
        /\ hook.synced = 0
        /\ StoreUntouched

C11_Witness ==
    /\ HookOver
    /\ hook.parsed.action = "closed"
    /\ hook.parsed.lastCommitMessage = <<"[", "ci", " ", "skip", "]", " ", "fix">>
    /\ hook.replies = <<NoContent>>
    /\ 1 \in DOMAIN pipelines

\* the request has been answered and the answer is no error
AnsweredWell == HookOver /\ ~hook.failed
\* a pipeline is registered at the branch of the notification
Registered == PipelineAt(ParseUrl(hook.parsed.branch)) # 0

\* C12 as stated: every non-error response is 204 or 201, and it is 201
\* exactly when the request has created an event
C12_Original ==
    AnsweredWell =>
        /\ hook.replies \in {<<NoContent>>, <<Created>>}
        /\ hook.replies = <<Created>> <=> hook.made # <<>>

\* C12: every non-error response is 204, 201 or 200; it is 201 exactly when
\* the request has created an event; a push and a PR opened, reopened or
\* synchronized are answered 204 or 201; a PR closed creates no event and is
\* answered 200 when it is not suppressed and a pipeline is registered at
\* the PR's branch, and 204 otherwise
C12_ResponseCodes ==
    AnsweredWell =>
        /\ hook.replies \in {<<NoContent>>, <<Created>>, <<Ok>>}
        /\ hook.replies = <<Created>> <=> hook.made # <<>>
        /\ hook.replies = <<Ok>> <=>
             (hook.parsed.action = "closed" /\ ~SuppressedHook /\ Registered)

C12_Witness ==
    /\ AnsweredWell
    /\ hook.parsed.action = "closed"
    /\ hook.replies = <<Ok>>
    /\ jobs[11].archived
    /\ hook.made = <<>>

\* the first fan-out of the request has been computed
Resolved ==
    \/ hook.pc \in {"sync", "stop", "close", "fanout", "create"}
    \/ /\ HookOver /\ ~hook.fault /\ ~SuppressedHook
       /\ "ignoreCommitsBy" \in DOMAIN options
\* the trigger kind of the notification
Kind == IF hook.parsed.type = "pr" THEN "pr" ELSE "commit"
\* the pipelines of the hook's repository on another of its branches that
\* have a job for ~<kind>:<changed branch>
Subscribers ==
    {id \in DOMAIN pipelines :
       /\ pipelines[id].scmUri[1] = ParseUrl(hook.parsed.branch)[1]
       /\ pipelines[id].scmUri[2] = ParseUrl(hook.parsed.branch)[2]
       /\ pipelines[id].scmUri[3] # hook.parsed.branch
       /\ \E i \in 1..Len(BranchList) :
            BranchList[i].name = pipelines[id].scmUri[3]
       /\ <<Kind, hook.parsed.branch>> \in pipelines[id].startsFrom}
\* the pipeline registered at the changed branch, if there is one
AtChangedBranch ==
    {id \in DOMAIN pipelines :
       pipelines[id].scmUri = ParseUrl(hook.parsed.branch)}

\* C13: triggeredPipelines returns exactly the pipelines on other branches of
\* the repository that have a job triggered by ~<kind>:<changed branch>,
\* plus the pipeline registered at the changed branch whatever its workflow
\* graph, each of them once
C13_FanOutExact ==
    Resolved =>
        /\ {hook.resolved[i] : i \in 1..Len(hook.resolved)}
             = Subscribers \cup AtChangedBranch
        /\ Len(hook.resolved) = Cardinality(Subscribers \cup AtChangedBranch)

C13_Witness ==
    /\ Resolved
    /\ hook.parsed.type = "repo"
    /\ hook.parsed.branch = "master"
    /\ hook.resolved = <<2, 1>>
    /\ <<"commit", "master">> \notin pipelines[1].startsFrom

PrFields == {"prRef", "prNum", "prInfo"}
\* event e is what a pipeline registered at the changed branch is to get
OwnBranchEvent(e) ==
    IF hook.parsed.type = "pr"
    THEN /\ e.startFrom = <<"~pr">>
         /\ e.type = "pr"
         /\ PrFields \subseteq DOMAIN e
         /\ e.prNum = hook.parsed.prNum
    ELSE e.startFrom = <<"~commit">>
\* event e is what a pipeline on another branch is to get
OtherBranchEvent(e) ==
    /\ e.startFrom = <<IF hook.parsed.type = "pr" THEN "~pr" ELSE "~commit",
                       hook.parsed.branch>>
    /\ e.type = "pipeline"
    /\ PrFields \cap DOMAIN e = {}

\* C14: a request answered 201 has created one event for each pipeline of
\* the fan-out and no two for the same pipeline; the event of a pipeline at
\* the changed branch starts from ~commit, or from ~pr with type pr and the
\* PR fields; the event of any other pipeline starts from ~commit:<branch> or
\* ~pr:<branch>, has type pipeline and no PR fields
C14_OneEventPerPipeline ==
    (HookOver /\ hook.replies = <<Created>>) =>
        /\ Len(hook.made) = Len(hook.resolved)
        /\ {hook.made[i].pipelineId : i \in 1..Len(hook.made)}
             = {hook.resolved[i] : i \in 1..Len(hook.resolved)}
        /\ \A i, k \in 1..Len(hook.made) :
             hook.made[i].pipelineId = hook.made[k].pipelineId => i = k
        /\ \A i \in 1..Len(hook.made) :
             IF pipelines[hook.made[i].pipelineId].scmUri[3]
                  = hook.parsed.branch
             THEN OwnBranchEvent(hook.made[i])
             ELSE OtherBranchEvent(hook.made[i])

C14_Witness ==
    /\ HookOver
    /\ hook.replies = <<Created>>
    /\ hook.parsed.type = "pr"
    /\ hook.parsed.action = "reopened"
    /\ Len(hook.made) = 2
    /\ hook.made[1].pipelineId = 2
    /\ hook.made[2].pipelineId = 1

\* C15: the configPipelineSha of every created event, of a push and of a pull
\* request alike, is the commit looked up with the scmUri of the pipeline
\* that receives the event
C15_ConfigShaOfOwnBranch ==
    \A i \in 1..Len(hook.made) :
        hook.made[i].configPipelineSha.at
            = pipelines[hook.made[i].pipelineId].scmUri

\* the notification went past the suppression rules and every collaborator
\* call made for it has succeeded
Unhindered ==
    /\ Taken /\ ~hook.fault /\ ~SuppressedHook
    /\ "ignoreCommitsBy" \in DOMAIN options
\* the restrict-pr annotation of the pipeline at the PR's branch
Annotated(value) ==
    /\ Registered
    /\ pipelines[PipelineAt(ParseUrl(hook.parsed.branch))].annotations
         = (RestrictKey :> value)
\* a PR opened has been handled for a pipeline annotated restrict-pr: fork
OpenedOnForkRestricted ==
    /\ HookOver /\ Unhindered
    /\ hook.parsed.action = "opened"
    /\ Annotated("fork")

\* C16 as stated: with restrict-pr: fork, a PR opened from a fork is
\* answered 204 with no event and without pipeline.sync() being called, and
\* one from a branch is answered 201 with events
C16_Original ==
    OpenedOnForkRestricted =>
        IF hook.parsed.prSource = "fork"
        THEN hook.replies = <<NoContent>> /\ hook.made = <<>>
             /\ hook.synced = 0
        ELSE hook.replies = <<Created>> /\ hook.made # <<>>

\* C16: with restrict-pr: fork, the pipeline is synced once before the
\* restriction is evaluated; a PR opened from a fork is then answered 204
\* with no event, and one from a branch is answered 201 with events
C16_ForkRestriction ==
    OpenedOnForkRestricted =>
        /\ hook.synced = 1
        /\ IF hook.parsed.prSource = "fork"
           THEN hook.replies = <<NoContent>> /\ hook.made = <<>>
           ELSE hook.replies = <<Created>> /\ hook.made # <<>>

C16_Witness ==
    /\ OpenedOnForkRestricted
    /\ hook.parsed.prSource = "fork"
    /\ hook.replies = <<NoContent>>
    /\ hook.synced = 1

\* a PR opened, reopened or synchronized for a registered pipeline
StartingPr ==
    /\ Unhindered
    /\ hook.parsed.action \in {"opened", "reopened", "synchronized"}
    /\ Registered
\* the annotation and the origin of the PR restrict it
RestrictedByAnnotation ==
    \/ Annotated("all")
    \/ Annotated("branch") /\ hook.parsed.prSource = "branch"
    \/ Annotated("fork") /\ hook.parsed.prSource = "fork"

\* C17: for a PR opened, reopened or synchronized with a pipeline at the PR's
\* branch the pipeline is synced before anything is stopped or created; the
\* PR is restricted exactly when the annotation is all, or branch with a
\* branch origin, or fork with a fork origin; a restricted PR is answered 204
\* with no event and no build aborted, an unrestricted one 201 with events
C17_RestrictionTable ==
    /\ (StartingPr /\ (hook.made # <<>> \/ ~StoreUntouched)) => hook.synced = 1
    /\ (StartingPr /\ HookOver) =>
         /\ hook.synced = 1
         /\ IF RestrictedByAnnotation
            THEN /\ hook.replies = <<NoContent>>
                 /\ hook.made = <<>>
                 /\ StoreUntouched
            ELSE /\ hook.replies = <<Created>>
                 /\ hook.made # <<>>

C17_Witness ==
    /\ StartingPr /\ HookOver
    /\ hook.parsed.action = "synchronized"
    /\ Annotated("branch")
    /\ hook.parsed.prSource = "branch"
    /\ hook.replies = <<NoContent>>
    /\ prBuilds[102].status = "QUEUED"

\* the jobs of the registered pipeline whose name contains PR-<n>
JobsOfPr ==
    {j \in DOMAIN jobs :
       /\ jobs[j].pipelineId = PipelineAt(ParseUrl(hook.parsed.branch))
       /\ Includes(jobs[j].name, PrName(hook.parsed.prNum))}
BuildsOfPr == {b \in DOMAIN prBuilds : prBuilds[b].jobId \in JobsOfPr}
WasTerminal(b) ==
    hook.before.builds[b].status \in {"SUCCESS", "FAILURE", "ABORTED"}

Synchronizing ==
    Taken /\ hook.parsed.action = "synchronized" /\ Registered

\* C19: while a PR synchronized is handled, an event exists only once every
\* build of the PR's jobs that was running is persisted as ABORTED with the
\* message that a new commit was pushed to the PR; and if stopping a build
\* has failed, there is no event and the response is the error
C19_StopBeforeCreate ==
    /\ (Synchronizing /\ hook.made # <<>>) =>
         \A b \in BuildsOfPr :
             ~WasTerminal(b) =>
                 /\ prBuilds[b].status = "ABORTED"
                 /\ prBuilds[b].statusMessage
                      = <<"Aborted because new commit was pushed to PR#",
                          hook.parsed.prNum>>
    /\ (Synchronizing /\ hook.broken # {}) =>
         /\ hook.made = <<>>
         /\ hook.replies = <<Internal>>

C19_Witness ==
    /\ Synchronizing /\ HookOver
    /\ hook.replies = <<Created>>
    /\ hook.made # <<>>
    /\ hook.before.builds[101].status = "RUNNING"
    /\ prBuilds[101].status = "ABORTED"
    /\ prBuilds[103].status = "ABORTED"

\* C20: a request is never answered twice, a request whose handling is over
\* has been answered once, and when a collaborator call made for it has
\* failed the answer is the error, never a 2xx
C20_OneResponseErrorOnFailure ==
    /\ Len(hook.replies) <= 1
    /\ HookOver => Len(hook.replies) = 1
    /\ (Taken /\ hook.fault) => hook.replies \in {<<>>, <<Internal>>}
    /\ (HookOver /\ hook.fault) => hook.replies = <<Internal>>

C20_Witness ==
    /\ HookOver
    /\ hook.parsed.action = "closed"
    /\ hook.fault
    /\ hook.broken = {11, 13}
    /\ hook.replies = <<Internal>>
    /\ prBuilds[101].status = "ABORTED"

\* a PR closed is being handled and the jobs of the PR have been listed
Closing ==
    /\ Taken /\ hook.parsed.action = "closed"
    /\ hook.prJobs # {}
\* job j was archived by this request
ArchivedNow(j) == jobs[j].archived /\ ~hook.before.jobs[j].archived
BuildsOfJob(j) == {b \in DOMAIN prBuilds : prBuilds[b].jobId = j}

\* C21: while a PR closed is handled, a job is archived only when every
\* build of it that was running has been stopped; a job whose stop or
\* archive has failed is not archived; and once the handling is over every
\* other job of the PR is archived with all its builds stopped
C21_ArchiveAfterStop ==
    Closing =>
        /\ \A j \in hook.prJobs :
             ArchivedNow(j) =>
                 \A b \in BuildsOfJob(j) : prBuilds[b].status \in
                     {"ABORTED", "SUCCESS", "FAILURE"}
        /\ \A j \in hook.broken : jobs[j].archived = hook.before.jobs[j].archived
        /\ HookOver =>
             \A j \in hook.prJobs \ hook.broken :
                 /\ jobs[j].archived
                 /\ \A b \in BuildsOfJob(j) : prBuilds[b].status \in
                        {"ABORTED", "SUCCESS", "FAILURE"}

C21_Witness ==
    /\ Closing /\ HookOver
    /\ hook.broken = {11}
    /\ ~jobs[11].archived
    /\ prBuilds[102].status = "QUEUED"
    /\ jobs[13].archived
    /\ prBuilds[103].status = "ABORTED"

\* C22: when the plugin is registered without ignoreCommitsBy, a parsed
\* notification without a skip marker is handled as a push or a pull request
\* and answered 204 or 201, not with an error
C22_NoIgnoreListDispatches ==
    (/\ HookOver /\ ~hook.fault
     /\ "ignoreCommitsBy" \notin DOMAIN options
     /\ hook.parsed # NoHook
     /\ ~Includes(hook.parsed.lastCommitMessage, <<"[", "skip", " ", "ci", "]">>)
     /\ ~Includes(hook.parsed.lastCommitMessage, <<"[", "ci", " ", "skip", "]">>))
    => hook.replies \in {<<NoContent>>, <<Created>>}

\* the pull requests other than the one of the notification that have jobs
OtherPrNums == {10} \ {hook.parsed.prNum}
\* job j is a job of pull request m: its name is PR-<m>:<job>
JobOfPr(j, m) ==
    LET prefix == PrName(m) \o <<":">>
    IN /\ Len(jobs[j].name) >= Len(prefix)
       /\ SubSeq(jobs[j].name, 1, Len(prefix)) = prefix

\* C27: handling a closed or synchronized notification of PR #n leaves the
\* archived flag and the builds of the jobs of every other PR #m as they were
C27_OtherPrUntouched ==
    (Taken /\ hook.parsed.action \in {"closed", "synchronized"}) =>
        \A m \in OtherPrNums : \A j \in DOMAIN jobs :
            JobOfPr(j, m) =>
                /\ jobs[j] = hook.before.jobs[j]
                /\ \A b \in BuildsOfJob(j) :
                     prBuilds[b] = hook.before.builds[b]

\* the restrict-pr annotation of pipeline p restricts a PR of this origin
RestrictsOrigin(p, prSource) ==
    /\ RestrictKey \in DOMAIN p.annotations
    /\ \/ p.annotations[RestrictKey] = "all"
       \/ /\ p.annotations[RestrictKey] \in {"branch", "fork"}
          /\ p.annotations[RestrictKey] = prSource

\* C28: no event of a PR opened, reopened or synchronized is created on a
\* pipeline whose own restrict-pr annotation restricts the origin of the PR,
\* be it the pipeline at the PR's branch or a subscriber on another branch
C28_NoEventOnRestrictedPipeline ==
    (Taken /\ hook.parsed.action \in {"opened", "reopened", "synchronized"}) =>
        \A i \in 1..Len(hook.made) :
            ~RestrictsOrigin(pipelines[hook.made[i].pipelineId],
                             hook.parsed.prSource)

\* the persisted status of the build that slot r names has changed
StatusChanged(r) ==
    /\ slot[r].req.id \in BuildIds
    /\ builds[slot[r].req.id].status # slot[r].preBuild.status

\* C23 as stated: a request answered with an error has changed neither the
\* persisted build nor the persisted event, and a build gets a new persisted
\* status only from a request answered 200
C23_Original ==
    \A r \in Slots :
        Over(r) =>
            /\ slot[r].reply >= BadRequest => Untouched(r)
            /\ StatusChanged(r) => slot[r].reply = Ok

\* C23: a request refused before the updates (400, 401, 403, 404) has changed
\* neither the persisted build nor the persisted event; an error answer with
\* a change is a 500 after a failed collaborator call, nothing being rolled
\* back: a failed build.update leaves the build, a failed event.update the
\* event as it was; a build gets a new persisted status only from a request
\* answered 200 or 500 whose build.update succeeded
C23_NoRollback ==
    \A r \in Slots :
        Over(r) =>
            /\ slot[r].reply \in {BadRequest, Unauthorized, Forbidden, NotFound}
                 => Untouched(r)
            /\ (slot[r].reply >= BadRequest /\ ~Untouched(r)) =>
                 slot[r].reply = Internal /\ slot[r].fault # {}
            /\ "build.update" \in slot[r].fault =>
                 builds[slot[r].req.id] = slot[r].preBuild
            /\ "event.update" \in slot[r].fault =>
                 events[slot[r].preBuild.eventId] = slot[r].preEvent
            /\ StatusChanged(r) =>
                 /\ slot[r].reply \in {Ok, Internal}
                 /\ "build.update" \notin slot[r].fault

C23_Witness ==
    /\ Over(1)
    /\ slot[1].reply = Internal
    /\ slot[1].fault = {"event.update"}
    /\ slot[1].preBuild.status = "QUEUED"
    /\ builds[1].status = "SUCCESS"
    /\ events[1] = slot[1].preEvent
    /\ events[1] # slot[1].event

\* ================================================ two requests in flight
\* the handler holds no lock and the repository is last-write-wins: the
\* steps of two requests interleave freely
\* the meta each build reports when it completes
RaceMeta == [b \in BuildIds |-> IF b = 1 THEN [a |-> 1] ELSE [b |-> 2]]
\* the builds report their own completion with their own token
RaceRequests ==
    {[id |-> b,
      credentials |-> [username |-> ToString(b), scope |-> {"build"}],
      payload |-> [status |-> st, meta |-> RaceMeta[b]]] :
       b \in BuildIds, st \in {"SUCCESS", "FAILURE"}}

\* both builds of the event are RUNNING, started by the first request
RaceInit ==
    /\ builds = [b \in BuildIds |->
                   [NewBuild(b) EXCEPT !.status = "RUNNING", !.startTime = 1]]
    /\ events = [e \in EventIds |-> [id |-> e, meta |-> EmptyMap]]
    /\ triggers = Registry
    /\ created = <<>>
    /\ now = 1
    /\ slot = [r \in Slots |-> IdleSlot]
    /\ repeated = [r \in Slots |-> FALSE]
    /\ HookQuiet

RaceNext ==
    \/ \E r \in Slots, req \in RaceRequests :
         Begin(r, req) /\ UNCHANGED hookVars
    \/ \E r \in Slots, buildOk, eventOk \in BOOLEAN :
         Persist(r, buildOk, eventOk) /\ UNCHANGED hookVars
    \/ \E r \in Slots, emitOk \in BOOLEAN :
         Notify(r, emitOk) /\ UNCHANGED hookVars
    \/ \E r \in Slots, nextOk, listOk \in BOOLEAN :
         TriggerNextJobs(r, nextOk, listOk) /\ UNCHANGED hookVars
    \/ \E r \in Slots, i \in 1..Len(triggers), ok \in BOOLEAN :
         TriggerEvent(r, i, ok) /\ UNCHANGED hookVars

RaceSpec == RaceInit /\ [][RaceNext]_<<vars, hookVars>>

\* how many events pipeline p has received with parentBuildId b
EventsFrom(b, p) ==
    Cardinality({i \in 1..Len(created) :
                   created[i].parentBuildId = b /\ created[i].pipelineId = p})
\* the pipelines that have received an event
Receivers == {created[i].pipelineId : i \in 1..Len(created)}
\* the requests on build b that have started the cascade
Cascading(b) == {r \in Slots : slot[r].cascade /\ slot[r].req.id = b}

\* C24 as stated: whatever the interleaving of two SUCCESS requests on the
\* same RUNNING build, a destination pipeline receives at most one event
\* with that parentBuildId
C24_Original ==
    \A b \in BuildIds : \A p \in Receivers : EventsFrom(b, p) <= 1

\* C24: each SUCCESS request that read the build before a terminal status
\* was persisted runs the cascade once, so a destination pipeline receives
\* at most one event with that parentBuildId per such request (two when both
\* requests read the RUNNING build); a request that reads the build after
\* that is refused 403 and runs no cascade
C24_CascadePerRequest ==
    /\ \A b \in BuildIds : \A p \in Receivers :
         EventsFrom(b, p) <= Cardinality(Cascading(b))
    /\ \A r \in Slots :
         /\ slot[r].cascade =>
              /\ DesiredStatus(slot[r].req) = "SUCCESS"
              /\ slot[r].preBuild.status = "RUNNING"
         /\ (Handled(r) /\ slot[r].preBuild.status \in Terminal) =>
              slot[r].reply = Forbidden /\ ~slot[r].cascade

C24_Witness ==
    /\ \A r \in Slots :
         /\ Over(r) /\ slot[r].reply = Ok
         /\ slot[r].req.id = 1
         /\ DesiredStatus(slot[r].req) = "SUCCESS"
    /\ EventsFrom(1, 9) = 2
    /\ EventsFrom(1, 12) = 2

\* C25: when two builds of the same event have both completed with metas of
\* disjoint keys, the persisted event.meta holds every key and value of both
\* metas, whatever the interleaving of the two requests
C25_EventMetaSuperset ==
    (/\ \A r \in Slots : Over(r) /\ slot[r].reply = Ok
     /\ slot[1].req.id # slot[2].req.id)
    => \A r \in Slots :
           \A k \in DOMAIN PayloadMeta(slot[r].req) :
               /\ k \in DOMAIN events[1].meta
               /\ events[1].meta[k] = PayloadMeta(slot[r].req)[k]

\* the request that is about to write build b carries a status
WriterHasStatus(b) ==
    \A r \in Slots :
        (slot[r].pc = "loaded" /\ slot[r].req.id = b) =>
            DesiredStatus(slot[r].req) # ""

\* C26: a build whose persisted status is UNSTABLE keeps that status through
\* every step of every request, and a request that carries a status, a
\* permitted human ABORTED included, leaves its statusMessage as it was; the
\* build is never refused as no longer updatable
C26_UnstableSticks ==
    /\ [][\A b \in BuildIds :
            builds[b].status = "UNSTABLE" =>
                /\ builds'[b].status = "UNSTABLE"
                /\ WriterHasStatus(b) =>
                     builds'[b].statusMessage = builds[b].statusMessage
         ]_<<vars, hookVars>>
    /\ [](\A r \in Slots :
            (Handled(r) /\ slot[r].preBuild.status = "UNSTABLE"
               /\ slot[r].reply = Forbidden)
            => CredentialMismatch(slot[r].req))

C26_Witness ==
    /\ Over(1)
    /\ slot[1].reply = Ok
    /\ slot[1].preBuild.status = "UNSTABLE"
    /\ ~IsBuild(slot[1].req)
    /\ DesiredStatus(slot[1].req) = "ABORTED"
    /\ builds[1].status = "UNSTABLE"
    /\ builds[1].statusMessage = slot[1].preBuild.statusMessage
    /\ builds[1].endTime # slot[1].preBuild.endTime

====
